---- MODULE Spec2Model ----
(***************************************************************************)
(* Request preparation for language-model providers (floki):               *)
(*   - RequestHandler.normalize_chat_messages and process_params           *)
(*     (src/src/floki/llm/utils/request.py)                                *)
(*   - the configuration schema records and PromptyModelConfig             *)
(*     (src/src/floki/types/llm.py)                                        *)
(***************************************************************************)
EXTENDS Integers, Sequences, FiniteSets, TLC

VARIABLES
    messages,             \* normalize_chat_messages: the argument
    queue,                \* normalize_chat_messages: the local work queue
    normalized_messages,  \* normalize_chat_messages: the local result list
    pc,                   \* normalize_chat_messages: "loop" | "returned" | "raised"
    returned,             \* normalize_chat_messages: the value returned (NoValue before)
    raised,               \* normalize_chat_messages: the exception raised (NoValue before)
    call,                 \* the other entry points: the call made (function and arguments)
    outcome               \* the other entry points: what the call produced

vars == <<messages, queue, normalized_messages, pc, returned, raised, call, outcome>>

NoValue == [k |-> "none"]

(***************************************************************************)
(* Bounds of the model.                                                    *)
(***************************************************************************)
MaxDepth == 2      \* nesting depth of a message input
MaxLen == 2        \* length of every (nested) sequence of a message input

SeqsUpTo(S, n) == UNION {[1..m -> S] : m \in 0..n}

(***************************************************************************)
(* normalize_chat_messages: message values.                                *)
(* A value is text, a typed message (BaseMessage), a mapping (dict), a     *)
(* sequence, or something else (42).  A mapping's role is what             *)
(* msg.get("role") yields: a role text, None when the key is missing, or   *)
(* an unhashable object (a list such as ["user"]).                         *)
(***************************************************************************)
SupportedRoles == {"user", "assistant", "tool", "system"}
RoleNone == "None"               \* msg.get("role") of a mapping without the key
RoleUnhashable == "['user']"     \* a role that is a list: not hashable

Text(s) == [k |-> "str", role |-> "", content |-> s, items |-> <<>>]
Typed(r, c) == [k |-> "BaseMessage", role |-> r, content |-> c, items |-> <<>>]
Mapping(r, c) == [k |-> "dict", role |-> r, content |-> c, items |-> <<>>]
Other(c) == [k |-> "int", role |-> "", content |-> c, items |-> <<>>]
List(s) == [k |-> "list", role |-> "", content |-> "", items |-> s]

AcceptedLeaves ==
    {Text("a"), Text("b"), Typed("assistant", "m"), Mapping("user", "u"),
     Mapping("system", "s")}
RejectedLeaves ==
    {Mapping("bogus", "x"), Mapping(RoleNone, "x"), Mapping(RoleUnhashable, "x"),
     Other("42")}
Leaves == AcceptedLeaves \cup RejectedLeaves

RECURSIVE Values(_)
Values(d) ==
    IF d = 0 THEN Leaves
    ELSE Leaves \cup {List(s) : s \in SeqsUpTo(Values(d - 1), MaxLen)}

MessageInputs == Values(MaxDepth)

\* `role not in {"user", "assistant", "tool", "system"}`: membership in a set
\* hashes the role first, so an unhashable role raises TypeError.
Hashable(role) == role # RoleUnhashable

\* msg.model_dump() of a typed message: its record form.
model_dump(msg) == [role |-> msg.role, content |-> msg.content]

\* The mapping itself, appended verbatim.
Verbatim(msg) == [role |-> msg.role, content |-> msg.content]

ValueError(what, v) == [k |-> "ValueError", what |-> what, value |-> v]
TypeError(v) == [k |-> "TypeError", what |-> "unhashable type", value |-> v]

InitNorm ==
    /\ messages \in MessageInputs
    /\ queue = <<messages>>
    /\ normalized_messages = <<>>
    /\ pc = "loop"
    /\ returned = NoValue
    /\ raised = NoValue
    /\ call = NoValue
    /\ outcome = NoValue

\* One iteration of `while queue: msg = queue.pop(0)`, by the branch taken.
Popped(kind) == pc = "loop" /\ queue # <<>> /\ Head(queue).k = kind

AppendStr ==
    /\ Popped("str")
    /\ normalized_messages' =
          Append(normalized_messages, [role |-> "user", content |-> Head(queue).content])
    /\ queue' = Tail(queue)
    /\ UNCHANGED <<messages, pc, returned, raised, call, outcome>>

AppendBaseMessage ==
    /\ Popped("BaseMessage")
    /\ normalized_messages' = Append(normalized_messages, model_dump(Head(queue)))
    /\ queue' = Tail(queue)
    /\ UNCHANGED <<messages, pc, returned, raised, call, outcome>>

AppendDict ==
    /\ Popped("dict")
    /\ Hashable(Head(queue).role)
    /\ Head(queue).role \in SupportedRoles
    /\ normalized_messages' = Append(normalized_messages, Verbatim(Head(queue)))
    /\ queue' = Tail(queue)
    /\ UNCHANGED <<messages, pc, returned, raised, call, outcome>>

RaiseUnrecognizedRole ==
    /\ Popped("dict")
    /\ Hashable(Head(queue).role)
    /\ Head(queue).role \notin SupportedRoles
    /\ raised' = ValueError("Unrecognized role", Head(queue).role)
    /\ pc' = "raised"
    /\ queue' = Tail(queue)
    /\ UNCHANGED <<messages, normalized_messages, returned, call, outcome>>

RaiseUnhashableRole ==
    /\ Popped("dict")
    /\ ~Hashable(Head(queue).role)
    /\ raised' = TypeError(Head(queue).role)
    /\ pc' = "raised"
    /\ queue' = Tail(queue)
    /\ UNCHANGED <<messages, normalized_messages, returned, call, outcome>>

\* queue.extend(msg): the elements go to the BACK of the queue.
ExtendedQueue(q, msg) == Tail(q) \o msg.items

ExtendQueue ==
    /\ Popped("list")
    /\ queue' = ExtendedQueue(queue, Head(queue))
    /\ UNCHANGED <<messages, normalized_messages, pc, returned, raised, call, outcome>>

RaiseUnsupportedFormat ==
    /\ Popped("int")
    /\ raised' = ValueError("Unsupported message format", Head(queue).k)
    /\ pc' = "raised"
    /\ queue' = Tail(queue)
    /\ UNCHANGED <<messages, normalized_messages, returned, call, outcome>>

ReturnNormalized ==
    /\ pc = "loop"
    /\ queue = <<>>
    /\ returned' = normalized_messages
    /\ pc' = "returned"
    /\ UNCHANGED <<messages, queue, normalized_messages, raised, call, outcome>>

NextNorm ==
    \/ AppendStr
    \/ AppendBaseMessage
    \/ AppendDict
    \/ RaiseUnrecognizedRole
    \/ RaiseUnhashableRole
    \/ ExtendQueue
    \/ RaiseUnsupportedFormat
    \/ ReturnNormalized

SpecNorm == InitNorm /\ [][NextNorm]_vars

(***************************************************************************)
(* C1 (as claimed): on an input whose leaves are all accepted, the list    *)
(* returned is the left-to-right flattening of the nested input, each leaf *)
(* converted to its message record.                                        *)
(***************************************************************************)
LeafRecord(v) ==
    IF v.k = "str" THEN [role |-> "user", content |-> v.content]
    ELSE [role |-> v.role, content |-> v.content]

RECURSIVE Flatten(_)
RECURSIVE FlattenSeq(_)
Flatten(v) == IF v.k = "list" THEN FlattenSeq(v.items) ELSE <<LeafRecord(v)>>
FlattenSeq(s) == IF s = <<>> THEN <<>> ELSE Flatten(Head(s)) \o FlattenSeq(Tail(s))

RECURSIVE AllAccepted(_)
AllAccepted(v) ==
    IF v.k = "list" THEN \A i \in 1..Len(v.items) : AllAccepted(v.items[i])
    ELSE v \in AcceptedLeaves

C1_FlatteningPreservesOrder ==
    (pc = "returned" /\ AllAccepted(messages)) => returned = Flatten(messages)

(***************************************************************************)
(* C3 (as claimed): the call either returns a list or fails with one of    *)
(* the two ValueError kinds -- InvalidRole when a mapping's role is        *)
(* missing or not a supported role, UnsupportedFormat when the value is    *)
(* of no accepted shape -- and returns nothing when it fails.              *)
(***************************************************************************)
C3_TotalExceptTwoFailures ==
    /\ pc = "raised" =>
          /\ returned = NoValue
          /\ raised.k = "ValueError"
          /\ raised.what \in {"Unrecognized role", "Unsupported message format"}
    /\ pc = "returned" => raised = NoValue

(***************************************************************************)
(* process_params.                                                         *)
(* A params mapping is a function from the keys to a value or to Missing   *)
(* (the key is not in the dict).  The collaborators format_tool and        *)
(* generate_request are opaque: each is modelled as the term of its call.  *)
(***************************************************************************)
MaxTools == 2      \* length of the tools list

ToolDescriptors == {"t1", "t2"}
Providers == {"openai", "nvidia"}
ParamKeys == {"tools", "temperature", "model"}

Missing == [p |-> FALSE, scalar |-> "", list |-> <<>>]
Scalar(x) == [p |-> TRUE, scalar |-> x, list |-> <<>>]
ListValue(l) == [p |-> TRUE, scalar |-> "", list |-> l]

\* ToolHelper.format_tool(tool, tool_format=llm_provider)
format_tool(tool, tool_format) == [tool |-> tool, tool_format |-> tool_format]

NoTools == [none |-> TRUE, list |-> <<>>]         \* tools=None
ToolsArg(l) == [none |-> FALSE, list |-> l]

ParamsInputs ==
    {[key \in ParamKeys |->
         CASE key = "tools" -> t
           [] key = "temperature" -> temp
           [] OTHER -> m] :
        t \in {Missing, ListValue(<<format_tool("t0", "openai")>>)},
        temp \in {Missing, Scalar("0.2")},
        m \in {Missing, Scalar("gpt-4o")}}

ToolsInputs == {NoTools} \cup {ToolsArg(l) : l \in SeqsUpTo(ToolDescriptors, MaxTools)}
ResponseModels == {"None", "Schema"}

\* [ToolHelper.format_tool(tool, tool_format=llm_provider) for tool in tools]
FormattedToolsReversed(tools, llm_provider) ==
    [i \in 1..Len(tools) |-> format_tool(tools[Len(tools) + 1 - i], llm_provider)]
FormattedTools(tools, llm_provider) ==
    [i \in 1..Len(tools) |-> format_tool(tools[i], llm_provider)]

\* `if tools:` -- None and the empty list are falsy.
Truthy(tools) == ~tools.none /\ tools.list # <<>>

\* params after `params['tools'] = [...]` (or untouched).
WithTools(params, llm_provider, tools) ==
    IF Truthy(tools)
    THEN [params EXCEPT !["tools"] = ListValue(FormattedTools(tools.list, llm_provider))]
    ELSE params

\* StructureHandler.generate_request(response_model=, llm_provider=, **params)
generate_request(response_model, llm_provider, params) ==
    [generated_for |-> response_model, llm_provider |-> llm_provider, params |-> params]

InitParams ==
    /\ messages = NoValue
    /\ queue = <<>>
    /\ normalized_messages = <<>>
    /\ pc = "idle"
    /\ returned = NoValue
    /\ raised = NoValue
    /\ call = NoValue
    /\ outcome = NoValue

process_params ==
    /\ call = NoValue
    /\ \E params \in ParamsInputs, llm_provider \in Providers,
          tools \in ToolsInputs, response_model \in ResponseModels :
        LET p1 == WithTools(params, llm_provider, tools) IN
        /\ call' = [k |-> "process_params", params |-> params,
                    llm_provider |-> llm_provider, tools |-> tools,
                    response_model |-> response_model,
                    params_after |-> p1]
        /\ outcome' =
             IF response_model # "None"
             THEN [k |-> "return", same_object |-> FALSE,
                   value |-> generate_request(response_model, llm_provider, p1)]
             ELSE [k |-> "return", same_object |-> TRUE,
                   value |-> generate_request("None", "", p1)]
        /\ UNCHANGED <<messages, queue, normalized_messages, pc, returned, raised>>

NextParams == process_params

SpecParams == InitParams /\ [][NextParams]_vars

(***************************************************************************)
(* C4: with a non-empty tools list and no response_model the mapping       *)
(* returned is the caller's, its "tools" the formatted tools in the        *)
(* original order and every other key as it was; with tools empty or       *)
(* absent nothing changes.                                                 *)
(***************************************************************************)
C4_Called == call # NoValue /\ call.response_model = "None"

C4_ToolsFormattedInOrder ==
    C4_Called =>
        LET ret == outcome.value.params
            tl == call.tools.list IN
        /\ outcome.k = "return"
        /\ outcome.same_object
        /\ ret = call.params_after
        /\ \A key \in ParamKeys \ {"tools"} : ret[key] = call.params[key]
        /\ IF ~call.tools.none /\ Len(tl) > 0
           THEN /\ ret["tools"].p
                /\ Len(ret["tools"].list) = Len(tl)
                /\ \A i \in 1..Len(tl) :
                      /\ ret["tools"].list[i].tool = tl[i]
                      /\ ret["tools"].list[i].tool_format = call.llm_provider
           ELSE ret = call.params

C4_Witness ==
    /\ C4_Called
    /\ call.tools.list = <<"t2", "t1">>
    /\ call.params["tools"].p
    /\ call.params["temperature"].p
    /\ outcome.value.params["tools"].list[1].tool = "t2"

(***************************************************************************)
(* The configuration schema (types/llm.py).                                *)
(*                                                                         *)
(* A value is a record [t, s, i, m]: t its Python type, s its text, i its  *)
(* number, m its items -- the <<key, value>> pairs of a dict, or the       *)
(* <<field, value>> pairs of a constructed record (t = "inst", s = class). *)
(* Absent stands for a key the raw mapping does not hold.                  *)
(***************************************************************************)
Absent == [t |-> "absent", s |-> "", i |-> 0, m |-> {}]
None == [t |-> "none", s |-> "", i |-> 0, m |-> {}]
Str(x) == [t |-> "str", s |-> x, i |-> 0, m |-> {}]
Num(n) == [t |-> "int", s |-> "", i |-> n, m |-> {}]
Bool(b) == [t |-> "bool", s |-> "", i |-> IF b THEN 1 ELSE 0, m |-> {}]
Dict(pairs) == [t |-> "dict", s |-> "", i |-> 0, m |-> pairs]
EmptyList == [t |-> "list", s |-> "", i |-> 0, m |-> {}]
Object == [t |-> "object", s |-> "", i |-> 0, m |-> {}]
Inst(cls, pairs) == [t |-> "inst", s |-> cls, i |-> 0, m |-> pairs]

Keys(pairs) == {p[1] : p \in pairs}
\* mapping.get(key): Absent when the key is not there
Get(pairs, key) ==
    IF key \in Keys(pairs) THEN (CHOOSE p \in pairs : p[1] = key)[2] ELSE Absent
\* setattr / item assignment
Put(pairs, key, v) == {p \in pairs : p[1] # key} \cup {<<key, v>>}

(***************************************************************************)
(* Field declarations: Field(default, ge=, le=) with the annotation's      *)
(* type.  ge and le are <<>> (no bound) or <<bound>>.                      *)
(***************************************************************************)
n_ge == 1
n_le == 128
top_logprobs_ge == 0
top_logprobs_le == 20

Fld(name, type, default) ==
    [name |-> name, type |-> type, required |-> FALSE, default |-> default,
     ge |-> <<>>, le |-> <<>>]
Req(name, type) ==
    [name |-> name, type |-> type, required |-> TRUE, default |-> Absent,
     ge |-> <<>>, le |-> <<>>]
Rng(name, type, default, ge, le) ==
    [name |-> name, type |-> type, required |-> FALSE, default |-> default,
     ge |-> ge, le |-> le]

HFInferenceClientConfig ==
    {Fld("model", "str", None), Fld("api_key", "str|bool", None),
     Fld("token", "str|bool", None), Fld("base_url", "str", None),
     Fld("timeout", "num", None), Fld("headers", "dict", None),
     Fld("cookies", "dict", None), Fld("proxies", "any", None)}

OpenAIClientConfig ==
    {Fld("base_url", "str", Str("https://api.openai.com/v1")),
     Fld("api_key", "str", None), Fld("organization", "str", None),
     Fld("project", "str", None)}

AzureOpenAIClientConfig ==
    {Fld("api_key", "str", None), Fld("azure_ad_token", "str", None),
     Fld("organization", "str", None), Fld("project", "str", None),
     Fld("api_version", "str", Str("2024-07-01-preview")),
     Req("azure_endpoint", "str"),
     Fld("azure_deployment", "str", Str("gpt-4o")),
     Fld("azure_client_id", "str", None)}

OpenAIModelConfig ==
    OpenAIClientConfig \cup
    {Fld("type", "literal:openai", Str("openai")), Fld("name", "str", Str("gpt-4o"))}

AzureOpenAIModelConfig ==
    AzureOpenAIClientConfig \cup {Fld("type", "literal:azure_openai", Str("azure_openai"))}

HFHubModelConfig ==
    HFInferenceClientConfig \cup {Fld("type", "literal:huggingface", Str("huggingface"))}

OpenAIParamsBase ==
    {Fld("model", "str", Str("gpt-4o")),
     Rng("temperature", "num", Num(0), <<0>>, <<2>>),
     Fld("max_tokens", "num", None),
     Rng("top_p", "num", Num(1), <<0>>, <<1>>),
     Rng("frequency_penalty", "num", Num(0), <<-2>>, <<2>>),
     Rng("presence_penalty", "num", Num(0), <<-2>>, <<2>>),
     Fld("stop", "str|list", None),
     Fld("stream", "bool", Bool(FALSE))}

OpenAITextCompletionParams ==
    OpenAIParamsBase \cup
    {Rng("best_of", "num", None, <<1>>, <<>>), Fld("echo", "bool", Bool(FALSE)),
     Rng("logprobs", "num", None, <<0>>, <<5>>), Fld("suffix", "str", None)}

OpenAIChatCompletionParams ==
    OpenAIParamsBase \cup
    {Fld("logit_bias", "dict", None), Fld("logprobs", "bool", Bool(FALSE)),
     Rng("top_logprobs", "num", None, <<top_logprobs_ge>>, <<top_logprobs_le>>),
     Rng("n", "num", Num(1), <<n_ge>>, <<n_le>>),
     Fld("response_format", "dict", None), Fld("tools", "list", None),
     Fld("tool_choice", "str|dict", None), Fld("function_call", "str|dict", None),
     Fld("seed", "num", None), Fld("user", "str", None)}

FlatClasses ==
    {"HFInferenceClientConfig", "OpenAIClientConfig", "AzureOpenAIClientConfig",
     "OpenAIModelConfig", "AzureOpenAIModelConfig", "HFHubModelConfig",
     "OpenAIParamsBase", "OpenAITextCompletionParams", "OpenAIChatCompletionParams"}

Fields(cls) ==
    CASE cls = "HFInferenceClientConfig" -> HFInferenceClientConfig
      [] cls = "OpenAIClientConfig" -> OpenAIClientConfig
      [] cls = "AzureOpenAIClientConfig" -> AzureOpenAIClientConfig
      [] cls = "OpenAIModelConfig" -> OpenAIModelConfig
      [] cls = "AzureOpenAIModelConfig" -> AzureOpenAIModelConfig
      [] cls = "HFHubModelConfig" -> HFHubModelConfig
      [] cls = "OpenAIParamsBase" -> OpenAIParamsBase
      [] cls = "OpenAITextCompletionParams" -> OpenAITextCompletionParams
      [] cls = "OpenAIChatCompletionParams" -> OpenAIChatCompletionParams

FieldNames(cls) == {f.name : f \in Fields(cls)}
FieldOf(cls, name) == CHOOSE f \in Fields(cls) : f.name = name

(***************************************************************************)
(* Validation of one field.                                                *)
(***************************************************************************)
Ok(v) == [ok |-> TRUE, v |-> v, err |-> ""]
Bad(err) == [ok |-> FALSE, v |-> None, err |-> err]

\* The annotation's type applied to a raw value (lax mode): the value as
\* stored, or a type error.
Coerce(type, raw) ==
    CASE type = "any" -> Ok(raw)
      [] type = "str" -> IF raw.t = "str" THEN Ok(raw) ELSE Bad("string_type")
      [] type = "str|bool" ->
            IF raw.t \in {"str", "bool"} THEN Ok(raw) ELSE Bad("string_type")
      [] type = "str|list" ->
            IF raw.t \in {"str", "list"} THEN Ok(raw) ELSE Bad("string_type")
      [] type = "str|dict" ->
            IF raw.t \in {"str", "dict"} THEN Ok(raw) ELSE Bad("string_type")
      [] type = "dict" -> IF raw.t = "dict" THEN Ok(raw) ELSE Bad("dict_type")
      [] type = "list" -> IF raw.t = "list" THEN Ok(raw) ELSE Bad("list_type")
      [] type = "num" ->
            IF raw.t \in {"int", "bool"} THEN Ok(Num(raw.i)) ELSE Bad("int_type")
      [] type = "bool" ->
            IF raw.t = "bool" \/ (raw.t = "int" /\ raw.i \in {0, 1})
            THEN Ok(Bool(raw.i = 1)) ELSE Bad("bool_parsing")
      [] type = "literal:openai" ->
            IF raw = Str("openai") THEN Ok(raw) ELSE Bad("literal_error")
      [] type = "literal:azure_openai" ->
            IF raw = Str("azure_openai") THEN Ok(raw) ELSE Bad("literal_error")
      [] type = "literal:huggingface" ->
            IF raw = Str("huggingface") THEN Ok(raw) ELSE Bad("literal_error")
      [] type = "literal:chat|completion" ->
            IF raw \in {Str("chat"), Str("completion")} THEN Ok(raw)
            ELSE Bad("literal_error")

\* Field(..., ge=, le=)
InRangeNoUpper(f, v) == v.t # "int" \/ (f.ge = <<>> \/ v.i >= f.ge[1])
InRange(f, v) ==
    v.t # "int" \/ ((f.ge = <<>> \/ v.i >= f.ge[1]) /\ (f.le = <<>> \/ v.i <= f.le[1]))

\* A key the mapping does not hold: the declared default, or "missing" for
\* a field that declares none.
DefaultOrMissing(f) == IF f.required THEN Bad("missing") ELSE Ok(f.default)

\* raise PydanticUseDefault(): the declared default.  A field that declares
\* none has no default validator to catch it, and it leaves the record's
\* validation uncaught.
UseDefault(f) == IF f.required THEN Bad("use_default") ELSE Ok(f.default)

\* The field's constraints, applied to a value of the field's type.
Constrained(f, c) ==
    IF ~c.ok THEN c
    ELSE IF ~InRange(f, c.v) THEN Bad("out_of_range")
    ELSE c

\* none_to_default keeps None as the value (no PydanticUseDefault).
NoneKeptValidateField(f, raw) ==
    IF raw.t = "absent" THEN DefaultOrMissing(f)
    ELSE IF raw.t = "none" THEN Ok(None)
    ELSE Constrained(f, Coerce(f.type, raw))

\* @field_validator("*", mode="before") none_to_default, then the field's
\* own validation.
ValidateField(f, raw) ==
    IF raw.t = "absent" THEN DefaultOrMissing(f)
    ELSE IF raw.t = "none" THEN UseDefault(f)
    ELSE Constrained(f, Coerce(f.type, raw))

Errs(name, r) == IF r.ok THEN {} ELSE {<<name, r.err>>}

\* What constructing a record produced: the record, or the error raised.
Constructed(inst) == [k |-> "ok", value |-> inst, errors |-> {}]
ValidationError(errors) == [k |-> "ValidationError", value |-> None, errors |-> errors]
AttributeError(what) ==
    [k |-> "AttributeError", value |-> None, errors |-> {<<"", "no attribute " \o what>>}]
UncaughtUseDefault(errors) ==
    [k |-> "UncaughtUseDefault", value |-> None, errors |-> errors]

\* An uncaught PydanticUseDefault ends the validation at once.  What the
\* caller then sees is the schema library's choice: its ValidationError
\* ("field required") or its SchemaError ("Uncaught UseDefault error").
Raised(o) ==
    IF o.k = "UncaughtUseDefault"
    THEN {[o EXCEPT !.k = "ValidationError"], [o EXCEPT !.k = "SchemaError"]}
    ELSE {o}

Uncaught(errors) == {e \in errors : e[2] = "use_default"}
Failed(errors) ==
    IF Uncaught(errors) # {} THEN UncaughtUseDefault(Uncaught(errors))
    ELSE ValidationError(errors)

\* cls(**mapping) for a record without nested records: keys that are no
\* field are ignored.
FieldResults(cls, pairs) ==
    {<<f.name, ValidateField(f, Get(pairs, f.name))>> : f \in Fields(cls)}

RecordOrError(cls, res) ==
    IF \E r \in res : ~r[2].ok
    THEN Failed({<<r[1], r[2].err>> : r \in {q \in res : ~q[2].ok}})
    ELSE Constructed(Inst(cls, {<<r[1], r[2].v>> : r \in res}))

Construct(cls, pairs) == RecordOrError(cls, FieldResults(cls, pairs))

\* the fields the raw mapping set (model_fields_set)
FieldsSet(cls, pairs) ==
    {name \in FieldNames(cls) : Get(pairs, name).t \notin {"absent", "none"}}

\* record.model_dump(): every field, None included
Dump(inst) == inst.m

(***************************************************************************)
(* PromptyModelConfig.                                                     *)
(***************************************************************************)
ConfigurationUnion == <<"OpenAIModelConfig", "AzureOpenAIModelConfig", "HFHubModelConfig">>
ParametersUnion == <<"OpenAITextCompletionParams", "OpenAIChatCompletionParams">>

PromptyModelConfig ==
    {Fld("api", "literal:chat|completion", Str("chat")),
     Req("configuration", "union:configuration"),
     Req("parameters", "union:parameters"),
     Fld("response", "str", Str("first"))}

\* Python truthiness (`if configuration and parameters`)
IsTruthy(v) ==
    CASE v.t \in {"absent", "none"} -> FALSE
      [] v.t = "dict" -> v.m # {}
      [] v.t = "list" -> v.m # {}
      [] v.t = "str" -> v.s # ""
      [] v.t \in {"int", "bool"} -> v.i # 0
      [] OTHER -> TRUE

IsInstance(v, cls) == v.t = "inst" /\ v.s = cls

\* obj.attr: a constructed record has its fields as attributes and no
\* other; a dict has none of them.
HasAttr(v, attr) == v.t = "inst" /\ attr \in Keys(v.m)

\* values.get(key): None when the key is missing
ValuesGet(values, key) == IF Get(values, key).t = "absent" THEN None ELSE Get(values, key)

\* Lines 142-148: a raw configuration mapping becomes the record its
\* "type" names; any other "type" leaves the mapping as it is.
Resolved(c) == IF c.k = "ok" THEN Ok(c.value) ELSE Bad(c.k)

ResolveConfiguration(configuration) ==
    IF configuration.t # "dict" THEN Ok(configuration)
    ELSE LET type == Get(configuration.m, "type")
             cls == CASE type = Str("openai") -> "OpenAIModelConfig"
                      [] type = Str("azure_openai") -> "AzureOpenAIModelConfig"
                      [] type = Str("huggingface") -> "HFHubModelConfig"
                      [] OTHER -> ""
         IN IF cls = "" THEN Ok(configuration)
            ELSE Resolved(Construct(cls, configuration.m))

\* Lines 150-155, with the text-completion record chosen for api="completion".
ResolveParametersByApi(api, configuration, parameters) ==
    IF parameters.t = "dict"
       /\ IsTruthy(configuration)
       /\ (IsInstance(configuration, "OpenAIModelConfig")
           \/ IsInstance(configuration, "AzureOpenAIModelConfig"))
    THEN Resolved(Construct(IF api = Str("completion") THEN "OpenAITextCompletionParams"
                            ELSE "OpenAIChatCompletionParams", parameters.m))
    ELSE Ok(parameters)

\* Lines 150-155: a raw parameters mapping becomes the chat-completion
\* record when the configuration is an OpenAI or Azure record.  The code
\* reads no api here: the record chosen does not depend on it.
ResolveParameters(api, configuration, parameters) ==
    IF parameters.t = "dict"
       /\ IsTruthy(configuration)
       /\ (IsInstance(configuration, "OpenAIModelConfig")
           \/ IsInstance(configuration, "AzureOpenAIModelConfig"))
    THEN Resolved(Construct("OpenAIChatCompletionParams", parameters.m))
    ELSE Ok(parameters)

\* Line 159, right-hand side: configuration.name or configuration.azure_deployment
SyncedModelName(configuration) ==
    IF ~HasAttr(configuration, "name") THEN Bad("name")
    ELSE IF IsTruthy(Get(configuration.m, "name")) THEN Ok(Get(configuration.m, "name"))
    ELSE IF ~HasAttr(configuration, "azure_deployment") THEN Bad("azure_deployment")
    ELSE Ok(Get(configuration.m, "azure_deployment"))

\* Lines 157-159: `if configuration and parameters: parameters.model = ...`
Sync(configuration, parameters) ==
    IF ~(IsTruthy(configuration) /\ IsTruthy(parameters)) THEN Ok(parameters)
    ELSE LET name == SyncedModelName(configuration) IN
         IF ~name.ok THEN Bad(name.err)
         ELSE IF parameters.t # "inst" THEN Bad("model")
         ELSE Ok(Inst(parameters.s, Put(parameters.m, "model", name.v)))

\* @model_validator(mode='before') sync_model_name(cls, values): the values
\* it returns, or the error it raises.  A ValidationError raised by a
\* nested constructor is a ValueError, which the schema reports as a
\* validation error of the record; an AttributeError propagates as it is.
sync_model_name(values) ==
    CHOOSE result \in
      {IF ~configuration.ok
       THEN [k |-> configuration.err, values |-> values, err |-> "configuration"]
       ELSE CHOOSE coerced \in
         {IF ~parameters.ok
          THEN [k |-> parameters.err, values |-> values, err |-> "parameters"]
          ELSE CHOOSE written \in
            {IF ~synced.ok
             THEN [k |-> "AttributeError", values |-> values, err |-> synced.err]
             ELSE [k |-> "ok",
                   values |-> Put(Put(values, "configuration", configuration.v),
                                  "parameters", synced.v),
                   err |-> ""] :
             synced \in {Sync(configuration.v, parameters.v)}} : TRUE :
          parameters \in {ResolveParameters(Get(values, "api"), configuration.v,
                                            ValuesGet(values, "parameters"))}} : TRUE :
       configuration \in {ResolveConfiguration(ValuesGet(values, "configuration"))}} : TRUE

\* A Union[...] field given a raw value (smart mode).  A record of a member
\* class is kept as it is.  A mapping is tried against every member; of
\* those that accept it the schema library takes the leftmost, or (newer
\* releases) the one with the most fields set, leftmost among equals: both
\* are outcomes.
Count(members, raw, i) == Cardinality(FieldsSet(members[i], raw.m))

Leftmost(ok) == CHOOSE i \in ok : \A j \in ok : i <= j

MostFieldsSet(members, raw, ok) ==
    CHOOSE i \in ok : \A j \in ok :
        \/ Count(members, raw, i) > Count(members, raw, j)
        \/ (Count(members, raw, i) = Count(members, raw, j) /\ i <= j)

UnionOutcomes(members, raw) ==
    IF raw.t = "inst"
    THEN IF \E i \in 1..Len(members) : members[i] = raw.s
         THEN {Ok(raw)} ELSE {Bad("model_type")}
    ELSE IF raw.t # "dict" THEN {Bad("model_type")}
    ELSE UNION
           {IF ok = {} THEN {Bad("union")}
            ELSE {Ok(Construct(members[i], raw.m).value) :
                     i \in {Leftmost(ok), MostFieldsSet(members, raw, ok)}} :
            ok \in {{i \in 1..Len(members) : Construct(members[i], raw.m).k = "ok"}}}

NestedOutcomes(f, members, raw) ==
    IF raw.t = "absent" THEN {DefaultOrMissing(f)}
    ELSE IF raw.t = "none" THEN {UseDefault(f)}
    ELSE UnionOutcomes(members, raw)

\* PromptyModelConfig(**values): the before-validator, then the fields.
PromptyModelConfigOutcomes(values) ==
    UNION
      {IF synced.k = "ValidationError"
       THEN {ValidationError({<<synced.err, "value_error">>})}
       ELSE IF synced.k = "UncaughtUseDefault"
       THEN {UncaughtUseDefault({<<synced.err, "use_default">>})}
       ELSE IF synced.k = "AttributeError" THEN {AttributeError(synced.err)}
       ELSE LET v == synced.values
                fld(name) == CHOOSE f \in PromptyModelConfig : f.name = name
                api == ValidateField(fld("api"), Get(v, "api"))
                response == ValidateField(fld("response"), Get(v, "response"))
            IN {LET bad == Errs("api", api) \cup Errs("response", response)
                           \cup Errs("configuration", c) \cup Errs("parameters", p)
                IN IF bad # {} THEN Failed(bad)
                   ELSE Constructed(Inst("PromptyModelConfig",
                           {<<"api", api.v>>, <<"configuration", c.v>>,
                            <<"parameters", p.v>>, <<"response", response.v>>})) :
                c \in NestedOutcomes(fld("configuration"), ConfigurationUnion,
                                     Get(v, "configuration")),
                p \in NestedOutcomes(fld("parameters"), ParametersUnion,
                                     Get(v, "parameters"))} :
       synced \in {sync_model_name(values)}}

\* model_dump() of a PromptyModelConfig: nested records become mappings.
DumpPromptyModelConfig(inst) ==
    {<<"api", Get(inst.m, "api")>>,
     <<"configuration", Dict(Dump(Get(inst.m, "configuration")))>>,
     <<"parameters", Dict(Dump(Get(inst.m, "parameters")))>>,
     <<"response", Get(inst.m, "response")>>}

(***************************************************************************)
(* PromptyDefinition: its `model` is a PromptyModelConfig, given here as a *)
(* raw mapping.                                                            *)
(***************************************************************************)
EmptyDict == Dict({})

PromptyDefinition ==
    {Fld("name", "str", Str("")), Fld("description", "str", Str("")),
     Fld("version", "str", Str("1.0")), Fld("authors", "list", EmptyList),
     Fld("tags", "list", EmptyList), Req("model", "PromptyModelConfig"),
     Fld("inputs", "dict", EmptyDict), Fld("sample", "str|dict", None),
     Fld("outputs", "dict", EmptyDict), Req("content", "str")}

ModelOutcomes(f, raw) ==
    IF raw.t = "absent" THEN {DefaultOrMissing(f)}
    ELSE IF raw.t = "none" THEN {UseDefault(f)}
    ELSE IF raw.t # "dict" THEN {Bad("model_type")}
    ELSE {IF o.k = "ok" THEN Ok(o.value) ELSE Bad(o.k) : o \in PromptyModelConfigOutcomes(raw.m)}

\* PromptyDefinition(**values).  An AttributeError or an uncaught
\* PydanticUseDefault of the nested record propagates; its validation error
\* is an error of the field `model`.
PromptyDefinitionOutcomes(values) ==
    LET flat == {f \in PromptyDefinition : f.name # "model"}
        res == [name \in {f.name : f \in flat} |->
                   ValidateField(CHOOSE f \in flat : f.name = name, Get(values, name))]
        bad == UNION {Errs(name, res[name]) : name \in DOMAIN res}
        fmodel == CHOOSE f \in PromptyDefinition : f.name = "model"
    IN {IF ~model.ok /\ model.err = "AttributeError" THEN AttributeError("name")
        ELSE IF ~model.ok /\ model.err = "UncaughtUseDefault"
        THEN UncaughtUseDefault({<<"model", "use_default">>})
        ELSE IF bad \cup Errs("model", model) # {}
        THEN Failed(bad \cup Errs("model", model))
        ELSE Constructed(Inst("PromptyDefinition",
                {<<name, res[name].v>> : name \in DOMAIN res} \cup {<<"model", model.v>>})) :
        model \in ModelOutcomes(fmodel, Get(values, "model"))}

(***************************************************************************)
(* The raw inputs the constructors are called with.                        *)
(***************************************************************************)
MaxSupplied == 2     \* keys a raw mapping of a flat record holds

Sample(type) ==
    CASE type \in {"str", "str|bool", "str|list", "str|dict"} -> Str("x")
      [] type = "num" -> Num(1)
      [] type = "bool" -> Bool(TRUE)
      [] type = "dict" -> Dict({<<"k", Str("v")>>})
      [] type = "list" -> EmptyList
      [] type = "any" -> Object
      [] type = "literal:openai" -> Str("openai")
      [] type = "literal:azure_openai" -> Str("azure_openai")
      [] type = "literal:huggingface" -> Str("huggingface")

\* What a caller may give for a field: None, a value of its type, something
\* of no accepted type.
RawValues(f) == {None, Sample(f.type), Object}
AllRawValues(cls) == UNION {RawValues(f) : f \in Fields(cls)}

RECURSIVE SubsetsUpTo(_, _)
SubsetsUpTo(S, n) ==
    IF n = 0 THEN {{}}
    ELSE LET smaller == SubsetsUpTo(S, n - 1) IN
         smaller \cup {T \cup {x} : T \in smaller, x \in S}

RawMappings(cls) ==
    UNION {{{<<name, g[name]>> : name \in S} :
              g \in {h \in [S -> AllRawValues(cls)] :
                        \A name \in S : h[name] \in RawValues(FieldOf(cls, name))}} :
           S \in SubsetsUpTo(FieldNames(cls), MaxSupplied)}

\* n and top_logprobs around their declared bounds.
NumberOrNone(lo, hi) == {Absent, None} \cup {Num(k) : k \in lo..hi}
ChatParamsProbes ==
    {{p \in {<<"n", a>>, <<"top_logprobs", b>>} : p[2] # Absent} :
        a \in NumberOrNone(n_ge - 2, n_le + 2),
        b \in NumberOrNone(top_logprobs_ge - 2, top_logprobs_le + 2)}

RecordInputs(cls) ==
    RawMappings(cls) \cup
    (IF cls = "OpenAIChatCompletionParams" THEN ChatParamsProbes ELSE {})

MappingOf(entries) == {p \in entries : p[2] # Absent}

ConfigurationMappings ==
    {Dict(MappingOf({<<"type", type>>, <<"name", name>>, <<"azure_endpoint", endpoint>>,
                     <<"azure_deployment", deployment>>})) :
        type \in {Absent, Str("openai"), Str("azure_openai"), Str("huggingface"),
                  Str("bogus")},
        name \in {Absent, Str("gpt-4o-mini")},
        endpoint \in {Absent, Str("https://e")},
        deployment \in {Absent, Str("dep")}}

ConfigurationRecords ==
    {Construct("OpenAIModelConfig", {}).value,
     Construct("OpenAIModelConfig", {<<"name", Str("gpt-4o-mini")>>}).value,
     Construct("AzureOpenAIModelConfig",
               {<<"azure_endpoint", Str("https://e")>>,
                <<"azure_deployment", Str("dep")>>}).value,
     Construct("HFHubModelConfig", {<<"model", Str("hf")>>}).value}

ConfigurationInputs == {Absent, None} \cup ConfigurationMappings \cup ConfigurationRecords

ParametersMappings ==
    {Dict(MappingOf({<<"model", model>>, <<"n", n>>, <<"best_of", best_of>>})) :
        model \in {Absent, Str("other")},
        n \in {Absent, Num(2), Num(n_le + 1)},
        best_of \in {Absent, Num(2)}}

ParametersRecords ==
    {Construct("OpenAITextCompletionParams", {}).value,
     Construct("OpenAITextCompletionParams", {<<"model", Str("other")>>}).value,
     Construct("OpenAITextCompletionParams", {<<"logprobs", Num(3)>>}).value,
     Construct("OpenAIChatCompletionParams", {}).value,
     Construct("OpenAIChatCompletionParams", {<<"model", Str("other")>>}).value}

ParametersInputs == {Absent, None} \cup ParametersMappings \cup ParametersRecords

PromptyModelConfigInputs ==
    {MappingOf({<<"api", api>>, <<"configuration", configuration>>,
                <<"parameters", parameters>>, <<"response", response>>}) :
        api \in {Absent, None, Str("chat"), Str("completion"), Str("bogus")},
        configuration \in ConfigurationInputs,
        parameters \in ParametersInputs,
        response \in {Absent, None}}

PromptyDefinitionInputs ==
    {MappingOf({<<"model", model>>, <<"content", content>>, <<"version", version>>,
                <<"inputs", inputs>>}) :
        model \in {Absent, None} \cup
                  {Dict(MappingOf({<<"configuration", c>>, <<"parameters", p>>})) :
                      c \in {Dict({<<"type", Str("openai")>>}),
                             Dict({<<"type", Str("huggingface")>>}),
                             Dict({<<"type", Str("bogus")>>})},
                      p \in {EmptyDict, Dict({<<"model", Str("other")>>})}},
        content \in {Absent, None, Str("x")},
        version \in {Absent, None, Str("2.0")},
        inputs \in {Absent, None}}

(***************************************************************************)
(* The constructors as operations.                                         *)
(***************************************************************************)
InitSchema ==
    /\ messages = NoValue
    /\ queue = <<>>
    /\ normalized_messages = <<>>
    /\ pc = "idle"
    /\ returned = NoValue
    /\ raised = NoValue
    /\ call = NoValue
    /\ outcome = NoValue

Calls(k, cls, values, original) ==
    [k |-> k, cls |-> cls, values |-> values, original |-> original]

NormUnchanged == UNCHANGED <<messages, queue, normalized_messages, pc, returned, raised>>

ConstructRecord ==
    /\ call = NoValue
    /\ \E cls \in FlatClasses : \E values \in RecordInputs(cls) :
        /\ call' = Calls("construct", cls, values, None)
        /\ outcome' \in Raised(Construct(cls, values))
        /\ NormUnchanged

ConstructPromptyModelConfig ==
    /\ call = NoValue
    /\ \E values \in PromptyModelConfigInputs :
        /\ call' = Calls("construct", "PromptyModelConfig", values, None)
        /\ outcome' \in UNION {Raised(o) : o \in PromptyModelConfigOutcomes(values)}
        /\ NormUnchanged

ConstructPromptyDefinition ==
    /\ call = NoValue
    /\ \E values \in PromptyDefinitionInputs :
        /\ call' = Calls("construct", "PromptyDefinition", values, None)
        /\ outcome' \in UNION {Raised(o) : o \in PromptyDefinitionOutcomes(values)}
        /\ NormUnchanged

\* cls(**record.model_dump()) of a record just constructed
Reconstruct ==
    /\ call # NoValue
    /\ call.k = "construct"
    /\ outcome.k = "ok"
    /\ \/ /\ call.cls \in FlatClasses
          /\ call' = Calls("reconstruct", call.cls, Dump(outcome.value), outcome.value)
          /\ outcome' \in Raised(Construct(call.cls, Dump(outcome.value)))
       \/ /\ call.cls = "PromptyModelConfig"
          /\ call' = Calls("reconstruct", call.cls, DumpPromptyModelConfig(outcome.value),
                           outcome.value)
          /\ outcome' \in UNION {Raised(o) : o \in
                    PromptyModelConfigOutcomes(DumpPromptyModelConfig(outcome.value))}
    /\ NormUnchanged

NextSchema ==
    \/ ConstructRecord
    \/ ConstructPromptyModelConfig
    \/ ConstructPromptyDefinition
    \/ Reconstruct

SpecSchema == InitSchema /\ [][NextSchema]_vars

(***************************************************************************)
(* Claims about the configuration schema.                                  *)
(***************************************************************************)
Constructing(cls) == call # NoValue /\ call.k = "construct" /\ call.cls = cls
Built(cls) == call # NoValue /\ call.cls = cls /\ outcome.k = "ok"

DeclaredFields(cls) ==
    CASE cls = "PromptyModelConfig" -> PromptyModelConfig
      [] cls = "PromptyDefinition" -> PromptyDefinition
      [] OTHER -> Fields(cls)

GivenNone(name) == Get(call.values, name) = None

\* C2 (as claimed): every PromptyModelConfig built with an OpenAI
\* configuration has parameters.model equal to configuration.name.
C2_ModelNameSynced ==
    (Built("PromptyModelConfig")
        /\ Get(outcome.value.m, "configuration").s = "OpenAIModelConfig")
    => Get(Get(outcome.value.m, "parameters").m, "model")
         = Get(Get(outcome.value.m, "configuration").m, "name")

\* C5 (as claimed): None given for a field never causes an error of that
\* field; the record built holds the field's declared default.
C5_NoneNeverFails ==
    (call # NoValue /\ call.k = "construct") =>
        \A f \in DeclaredFields(call.cls) :
            GivenNone(f.name) => \A e \in outcome.errors : e[1] # f.name

\* C5 (amended): None given for a field that declares a default is no
\* error of that field, and the record built holds the declared default;
\* None given for a field that declares no default (azure_endpoint,
\* configuration, parameters, model, content) is rejected: no record is
\* built.
C5_NoneGivesDeclaredDefault ==
    (call # NoValue /\ call.k = "construct") =>
        \A f \in DeclaredFields(call.cls) :
            GivenNone(f.name) =>
                IF f.required
                THEN outcome.k # "ok"
                ELSE /\ \A e \in outcome.errors : e[1] # f.name
                     /\ outcome.k = "ok" => Get(outcome.value.m, f.name) = f.default

C5_Witness ==
    /\ Constructing("OpenAIModelConfig")
    /\ GivenNone("base_url")
    /\ Get(call.values, "type") = Str("openai")
    /\ outcome.k = "ok"
    /\ Get(outcome.value.m, "base_url") = Str("https://api.openai.com/v1")

\* C6 (as claimed): a PromptyModelConfig given an Azure configuration and a
\* parameter set is built, with parameters.model the deployment name.
AzureGiven ==
    LET c == ResolveConfiguration(Get(call.values, "configuration")) IN
    c.ok /\ IsInstance(c.v, "AzureOpenAIModelConfig")

\* a parameter set: a record, or a raw mapping the chat-completion record accepts
ParametersGiven ==
    LET p == Get(call.values, "parameters") IN
    \/ p.t = "inst"
    \/ (p.t = "dict" /\ Construct("OpenAIChatCompletionParams", p.m).k = "ok")

C6_AzureDeploymentName ==
    (Constructing("PromptyModelConfig") /\ AzureGiven /\ ParametersGiven
        /\ Get(call.values, "api") # Str("bogus"))
    => /\ outcome.k = "ok"
       /\ Get(Get(outcome.value.m, "parameters").m, "model")
            = Get(Get(outcome.value.m, "configuration").m, "azure_deployment")

\* C7 (as claimed): a raw configuration mapping whose "type" is present and
\* is none of the three tags makes the construction fail with a validation
\* error, never with another kind of error.
UnknownTag ==
    /\ Get(call.values, "configuration").t = "dict"
    /\ Get(Get(call.values, "configuration").m, "type").t = "str"
    /\ Get(Get(call.values, "configuration").m, "type")
         \notin {Str("openai"), Str("azure_openai"), Str("huggingface")}

C7_UnknownTagIsValidationError ==
    (Constructing("PromptyModelConfig") /\ UnknownTag) => outcome.k = "ValidationError"

\* C8 (as claimed): a record constructed again from its own serialized
\* field mapping is built and equals the original.
C8_RoundTrip ==
    (call # NoValue /\ call.k = "reconstruct")
    => (outcome.k = "ok" /\ outcome.value = call.original)

\* C9: an OpenAIChatCompletionParams that is built has n in 1..128 and
\* top_logprobs None or in 0..20; n or top_logprobs outside its range fails
\* with a validation error; n = 1 and n = 128 are accepted; n given as None
\* is the default 1.
OnlyGiven(names) == Keys(call.values) \subseteq names

C9_ChatParamsBounds ==
    Constructing("OpenAIChatCompletionParams") =>
        LET n == Get(call.values, "n")
            top == Get(call.values, "top_logprobs") IN
        /\ outcome.k \in {"ok", "ValidationError"}
        /\ outcome.k = "ok" =>
              /\ Get(outcome.value.m, "n").t = "int"
              /\ Get(outcome.value.m, "n").i \in 1..128
              /\ \/ Get(outcome.value.m, "top_logprobs") = None
                 \/ /\ Get(outcome.value.m, "top_logprobs").t = "int"
                    /\ Get(outcome.value.m, "top_logprobs").i \in 0..20
        /\ (n.t = "int" /\ n.i \notin 1..128) => outcome.k = "ValidationError"
        /\ (top.t = "int" /\ top.i \notin 0..20) => outcome.k = "ValidationError"
        /\ (OnlyGiven({"n"}) /\ n \in {Num(1), Num(128)}) =>
              (outcome.k = "ok" /\ Get(outcome.value.m, "n") = n)
        /\ (n = None /\ outcome.k = "ok") => Get(outcome.value.m, "n") = Num(1)

C9_Witness ==
    /\ Constructing("OpenAIChatCompletionParams")
    /\ Get(call.values, "n") = Num(128)
    /\ Get(call.values, "top_logprobs") = Num(20)
    /\ outcome.k = "ok"
    /\ Get(outcome.value.m, "n") = Num(128)

\* C10: a raw parameters mapping given with a configuration that resolves
\* to the OpenAI or the Azure record becomes the chat-completion record,
\* for api "chat" and "completion" alike; it never becomes the
\* text-completion record.
ResolvedOpenAIOrAzure ==
    LET c == ResolveConfiguration(ValuesGet(call.values, "configuration")) IN
    /\ c.ok
    /\ (IsInstance(c.v, "OpenAIModelConfig") \/ IsInstance(c.v, "AzureOpenAIModelConfig"))

C10_RawParametersBecomeChat ==
    (Constructing("PromptyModelConfig")
        /\ Get(call.values, "parameters").t = "dict"
        /\ ResolvedOpenAIOrAzure)
    => /\ outcome.k = "ok" =>
             Get(outcome.value.m, "parameters").s = "OpenAIChatCompletionParams"
       /\ LET synced == sync_model_name(call.values) IN
          synced.k = "ok" =>
             Get(synced.values, "parameters").s = "OpenAIChatCompletionParams"

C10_Witness ==
    /\ Constructing("PromptyModelConfig")
    /\ Get(call.values, "api") = Str("completion")
    /\ Get(call.values, "parameters") = Dict({<<"model", Str("other")>>, <<"best_of", Num(2)>>})
    /\ Get(Get(call.values, "configuration").m, "type") = Str("openai")
    /\ outcome.k = "ok"
    /\ Get(outcome.value.m, "parameters").s = "OpenAIChatCompletionParams"

====
